---- MODULE Spec2Model ----
(***************************************************************************)
(* A model of my_code_base: linalg (inv, empirical_covariance),            *)
(* stats.timeseries (weighted_annual_mean, xr_deseasonalize,               *)
(* xr_seasonal_decompose, pd_seasonal_decompose, extend_annual_series),    *)
(* core.units, core.xarray_utils, plot.maps, plot.z_overlap and            *)
(* esd.ensemble.                                                           *)
(*                                                                         *)
(* Spec holds one function call at a time: `call` is the function called   *)
(* with its arguments, `ret` what the call produced (a value or a raised   *)
(* exception), `log` the messages the call logged and `passed` the object  *)
(* the caller passed in as it is after the call.  SpecXarray is the        *)
(* sequence of operations on one xarray object, `xr_obj`; SpecAxes the     *)
(* sequence of accesses to the polar accessor of the axes in `axes`, with  *)
(* `assigned` recording what the caller assigned.  Floating-point numbers  *)
(* are modelled by exact rationals extended with nan and +-inf, so a       *)
(* statement checked here is a statement about the arithmetic the code     *)
(* asks for, not about rounding.  A str is the sequence of its pieces.     *)
(***************************************************************************)
EXTENDS Integers, Sequences, FiniteSets, TLC

VARIABLES call, ret, log, passed, xr_obj, axes, assigned

vars == <<call, ret, log, passed, xr_obj, axes, assigned>>

(***************************************************************************)
(* Bounds of the model.                                                    *)
(***************************************************************************)
\* Matrix entries: inv takes them from -MaxEntry..MaxEntry, the covariance
\* from 0..MaxEntry.
MaxEntry == 2

\* ---------------------------------------------------------------------
\* Floats: a rational <<n, d>> in lowest terms with d > 0; d = 0 is a
\* non-finite value: <<0,0>> nan, <<1,0>> +inf, <<-1,0>> -inf.
\* ---------------------------------------------------------------------
Abs(i) == IF i < 0 THEN -i ELSE i

Sgn(i) == IF i < 0 THEN -1 ELSE IF i = 0 THEN 0 ELSE 1

RECURSIVE Gcd(_, _)
Gcd(a, b) == IF b = 0 THEN a ELSE Gcd(b, a % b)

Norm(n, d) ==
    IF d = 0 THEN <<Sgn(n), 0>>
    ELSE LET g == Gcd(Abs(n), Abs(d))
         IN  <<(Sgn(d) * n) \div g, Abs(d) \div g>>

NaN == <<0, 0>>

F(i) == <<i, 1>>

IsNaN(a) == a = NaN

IsFinite(a) == a[2] # 0

FAdd(a, b) ==
    IF a[2] = 0 /\ b[2] = 0
    THEN (IF a = b THEN a ELSE NaN)
    ELSE Norm(a[1] * b[2] + b[1] * a[2], a[2] * b[2])

FNeg(a) == <<-a[1], a[2]>>

FSub(a, b) == FAdd(a, FNeg(b))

FMul(a, b) == Norm(a[1] * b[1], a[2] * b[2])

FRecip(a) == Norm(Sgn(a[1]) * a[2], Abs(a[1]))

\* true division: x/0 is nan for x = 0 and +-inf otherwise
FDiv(a, b) ==
    IF b = F(0) THEN <<Sgn(a[1]), 0>> ELSE FMul(a, FRecip(b))

RECURSIVE FSum(_)
FSum(s) == IF s = <<>> THEN F(0) ELSE FAdd(s[1], FSum(Tail(s)))

\* a sum that skips nan (xarray and pandas reductions default to skipna)
RECURSIVE FSumSkipNa(_)
FSumSkipNa(s) ==
    IF s = <<>> THEN F(0)
    ELSE IF IsNaN(s[1]) THEN FSumSkipNa(Tail(s))
    ELSE FAdd(s[1], FSumSkipNa(Tail(s)))

\* ---------------------------------------------------------------------
\* Matrices: a sequence of rows, each a sequence of floats.
\* ---------------------------------------------------------------------
NRows(M) == Len(M)

NCols(M) == IF Len(M) = 0 THEN 0 ELSE Len(M[1])

Transpose(M) == [j \in 1..NCols(M) |-> [i \in 1..NRows(M) |-> M[i][j]]]

MatMul(A, B) ==
    [i \in 1..NRows(A) |->
        [j \in 1..NCols(B) |->
            FSum([k \in 1..NCols(A) |-> FMul(A[i][k], B[k][j])])]]

Identity(n) == [i \in 1..n |-> [j \in 1..n |-> IF i = j THEN F(1) ELSE F(0)]]

Minor(M, i, j) ==
    [r \in 1..(Len(M) - 1) |->
        [c \in 1..(Len(M) - 1) |->
            M[IF r < i THEN r ELSE r + 1][IF c < j THEN c ELSE c + 1]]]

RECURSIVE Det(_)
Det(M) ==
    IF Len(M) = 0 THEN F(1)
    ELSE FSum([j \in 1..Len(M) |->
            FMul(IF j % 2 = 1 THEN M[1][j] ELSE FNeg(M[1][j]),
                 Det(Minor(M, 1, j)))])

Cofactor(M, i, j) ==
    IF (i + j) % 2 = 0 THEN Det(Minor(M, i, j)) ELSE FNeg(Det(Minor(M, i, j)))

\* Python exceptions: class and the classes it derives from
ExcBases(e) ==
    CASE e = "LinAlgError" -> {"LinAlgError", "ValueError", "Exception"}
      [] e = "ValueError" -> {"ValueError", "Exception"}
      [] e = "AssertionError" -> {"AssertionError", "Exception"}
      [] OTHER -> {e, "Exception"}

Raise(e) == [status |-> "raise", exc |-> e, value |-> <<>>]

Return(v) == [status |-> "ok", exc |-> "", value |-> v]

Raises(r, e) == r.status = "raise" /\ e \in ExcBases(r.exc)

\* numpy.linalg.inv on a 2-D array of floats
np_linalg_inv(a) ==
    IF NRows(a) # NCols(a) THEN Raise("LinAlgError")
    ELSE IF Det(a) = F(0) THEN Raise("LinAlgError")
    ELSE Return([i \in 1..Len(a) |->
                    [j \in 1..Len(a) |-> FDiv(Cofactor(a, j, i), Det(a))]])

ndarray(v) == [kind |-> "ndarray", values |-> v, index |-> <<>>, columns |-> <<>>]

DataFrame(v, idx, cols) ==
    [kind |-> "DataFrame", values |-> v, index |-> idx, columns |-> cols]

\* the ndarray registration of inv transposing its result
inv_ndarray_transposed(x) ==
    LET r == np_linalg_inv(x.values)
    IN  IF r.status = "raise" THEN r ELSE Return(ndarray(Transpose(r.value)))

inv_ndarray(x) ==
    LET r == np_linalg_inv(x.values)
    IN  IF r.status = "raise" THEN r ELSE Return(ndarray(r.value))

\* the DataFrame registration of inv without its assertion
inv_DataFrame_unguarded(df) ==
    LET inverted == np_linalg_inv(df.values)
    IN  IF inverted.status = "raise" THEN inverted
        ELSE Return(DataFrame(inverted.value, df.index, df.columns))

\* the DataFrame registration of inv labelling the result as a true inverse
\* would be labelled (rows by the input's columns)
inv_DataFrame_swapped(df) ==
    IF NRows(df.values) # NCols(df.values) THEN Raise("AssertionError")
    ELSE LET inverted == np_linalg_inv(df.values)
         IN  IF inverted.status = "raise" THEN inverted
             ELSE Return(DataFrame(inverted.value, df.columns, df.index))

inv_DataFrame(df) ==
    IF NRows(df.values) # NCols(df.values) THEN Raise("AssertionError")
    ELSE LET inverted == np_linalg_inv(df.values)
         IN  IF inverted.status = "raise" THEN inverted
             ELSE Return(DataFrame(inverted.value, df.index, df.columns))

\* functools.singledispatch on the type of the argument
inv(x) == IF x.kind = "DataFrame" THEN inv_DataFrame(x) ELSE inv_ndarray(x)

\* mean over axis 0: one mean per column
MeanAxis0(X) ==
    [j \in 1..NCols(X) |->
        FDiv(FSum([i \in 1..NRows(X) |-> X[i][j]]), F(NRows(X)))]

\* mean over axis 1: one mean per row
MeanAxis1(X) ==
    [i \in 1..NRows(X) |->
        FDiv(FSum([j \in 1..NCols(X) |-> X[i][j]]), F(NCols(X)))]

ScalarDiv(M, k) == [i \in 1..NRows(M) |-> [j \in 1..NCols(M) |-> FDiv(M[i][j], k)]]

ScalarMul(M, k) == [i \in 1..NRows(M) |-> [j \in 1..NCols(M) |-> FMul(M[i][j], k)]]

\* empirical_covariance normalising by the number of variables
empirical_covariance_dof_of_x(x, bias) ==
    LET X == Transpose(x.values)
        mu == MeanAxis0(X)
        D == [i \in 1..NRows(X) |-> [j \in 1..NCols(X) |-> FSub(X[i][j], mu[j])]]
        dof == IF bias THEN NRows(x.values) ELSE NRows(x.values) - 1
        Sigma == ScalarDiv(MatMul(Transpose(D), D), F(dof))
    IN  IF x.kind = "DataFrame"
        THEN Return(DataFrame(Sigma, x.index, x.index))
        ELSE Return(ndarray(Sigma))

empirical_covariance(x, bias) ==
    LET X == Transpose(x.values)
        \* X.mean(axis=0); for a DataFrame a Series labelled by X.columns
        mu == MeanAxis0(X)
        \* broadcast over the rows; for a DataFrame aligned on X.columns
        D == [i \in 1..NRows(X) |-> [j \in 1..NCols(X) |-> FSub(X[i][j], mu[j])]]
        dof == IF bias THEN NRows(X) ELSE NRows(X) - 1
        Sigma == ScalarDiv(MatMul(Transpose(D), D), F(dof))
    IN  IF x.kind = "DataFrame"
        \* D.T.dot(D): rows D.T.index = x.index, columns D.columns = x.index
        THEN Return(DataFrame(Sigma, x.index, x.index))
        ELSE Return(ndarray(Sigma))

\* numpy.cov(m, bias=bias), the reference of the tests: rows are variables
np_cov(m, bias) ==
    LET avg == MeanAxis1(m)
        X == [i \in 1..NRows(m) |-> [j \in 1..NCols(m) |-> FSub(m[i][j], avg[i])]]
        ddof == IF bias THEN 0 ELSE 1
        fact == IF NCols(m) - ddof <= 0 THEN 0 ELSE NCols(m) - ddof
        c == MatMul(X, Transpose(X))
    IN  ScalarMul(c, FDiv(F(1), F(fact)))

\* ---------------------------------------------------------------------
\* Calendar: a time stamp is a record [year, month, day] (proleptic
\* Gregorian calendar, as pandas' DatetimeIndex).
\* ---------------------------------------------------------------------
Date(y, m, d) == [year |-> y, month |-> m, day |-> d]

is_leap_year(y) == (y % 4 = 0 /\ y % 100 # 0) \/ y % 400 = 0

days_in_month(y, m) ==
    IF m = 2 THEN (IF is_leap_year(y) THEN 29 ELSE 28)
    ELSE IF m \in {4, 6, 9, 11} THEN 30 ELSE 31

NextDay(t) ==
    IF t.day < days_in_month(t.year, t.month) THEN Date(t.year, t.month, t.day + 1)
    ELSE IF t.month < 12 THEN Date(t.year, t.month + 1, 1)
    ELSE Date(t.year + 1, 1, 1)

\* the first day of the month k months after t's month
AddMonths(t, k) ==
    LET z == t.year * 12 + (t.month - 1) + k
    IN  Date(z \div 12, (z % 12) + 1, 1)

\* the time stamp that follows t on an axis of frequency freq:
\* "D" daily, "MS" month start, "6MS" every sixth month start, "YS" every
\* twelfth month start (a year start when the axis begins in January)
Step(t, freq) ==
    CASE freq = "D" -> NextDay(t)
      [] freq = "MS" -> AddMonths(t, 1)
      [] freq = "6MS" -> AddMonths(t, 6)
      [] OTHER -> AddMonths(t, 12)

RECURSIVE date_range(_, _, _)
date_range(start, periods, freq) ==
    IF periods = 0 THEN <<>>
    ELSE <<start>> \o date_range(Step(start, freq), periods - 1, freq)

\* xr.infer_freq: needs three time stamps, else ValueError; "none" stands for
\* the None returned when the steps fit no frequency
infer_freq(time) ==
    IF Len(time) < 3 THEN Raise("ValueError")
    ELSE IF \A i \in 1..(Len(time) - 1) : time[i + 1] = NextDay(time[i])
         THEN Return("D")
    ELSE IF \E t \in 1..Len(time) : time[t].day # 1 THEN Return("none")
    ELSE IF \A i \in 1..(Len(time) - 1) : time[i + 1] = AddMonths(time[i], 1)
         THEN Return("MS")
    ELSE IF \A i \in 1..(Len(time) - 1) : time[i + 1] = AddMonths(time[i], 6)
         THEN Return("6MS")
    ELSE IF \A i \in 1..(Len(time) - 1) : time[i + 1] = AddMonths(time[i], 12)
         THEN Return("YS")
    ELSE Return("none")

\* str.startswith('M')
StartsWithM(f) == f = "MS"

\* the nested check_for_frequency: it only logs; None.startswith raises
\* AttributeError, which the bare except catches like infer_freq's ValueError
check_for_frequency(ds) ==
    LET estimated_frequency == infer_freq(ds.time)
    IN  IF estimated_frequency.status = "raise" \/ estimated_frequency.value = "none"
        THEN <<"Cannot infer frequency">>
        ELSE IF ~StartsWithM(estimated_frequency.value)
        THEN <<"Frequency seems to be not monthly. Consider another averaging method.">>
        ELSE <<>>

\* the time steps k..Len(time) that fall in calendar year y, in order
RECURSIVE StepsOfYearFrom(_, _, _)
StepsOfYearFrom(time, y, k) ==
    IF k > Len(time) THEN <<>>
    ELSE (IF time[k].year = y THEN <<k>> ELSE <<>>) \o StepsOfYearFrom(time, y, k + 1)

\* the time steps of a calendar year, in order
StepsOfYear(time, y) == StepsOfYearFrom(time, y, 1)

\* the year labels of groupby("time.year"): the years present
YearsPresent(time) == {time[t].year : t \in 1..Len(time)}

\* np.allclose(a, 1.0): |a - 1| <= atol + rtol * |1|, atol 1e-8, rtol 1e-5
allclose_one(a) ==
    /\ IsFinite(a)
    /\ Abs(a[1] - a[2]) * 100000000 <= 1001 * a[2]

\* ds.time.dt.days_in_month
month_length(time) ==
    [t \in 1..Len(time) |-> F(days_in_month(time[t].year, time[t].month))]

\* the values of a at the time steps idx
Take(a, idx) == [k \in 1..Len(idx) |-> a[idx[k]]]

\* the weights normalised by the sum over the whole time axis
weights_not_grouped(time) ==
    LET ml == month_length(time)
        total == FSum(ml)
    IN  [t \in 1..Len(time) |-> FDiv(ml[t], total)]

\* month_length.groupby("time.year") / month_length.groupby("time.year").sum()
weights_of(time) ==
    LET ml == month_length(time)
        year_sum == [y \in YearsPresent(time) |-> FSum(Take(ml, StepsOfYear(time, y)))]
    IN  [t \in 1..Len(time) |-> FDiv(ml[t], year_sum[time[t].year])]

\* weights.groupby("time.year").sum(xr.ALL_DIMS), for year y
weights_year_total(time, w, y) == FSum(Take(w, StepsOfYear(time, y)))

\* resample(time="YS"): one bin per calendar year from the first time stamp's
\* year to the last one's, empty years included
RECURSIVE YearBins(_, _)
YearBins(first, last) ==
    IF first > last THEN <<>> ELSE <<first>> \o YearBins(first + 1, last)

\* (a * weights).resample(time="YS").sum(dim="time"): nan is skipped
resample_YS_sum(time, a, y) == FSumSkipNa(Take(a, StepsOfYear(time, y)))

weighted_annual_mean(ds) ==
    LET weights == weights_of(ds.time)
        n == Len(ds.time)
        ones == [t \in 1..n |-> IF IsNaN(ds.values[t]) THEN F(0) ELSE F(1)]
        years == YearBins(ds.time[1].year, ds.time[n].year)
        ds_w == [t \in 1..n |-> FMul(ds.values[t], weights[t])]
        ones_w == [t \in 1..n |-> FMul(ones[t], weights[t])]
        ds_sum == [i \in 1..Len(years) |-> resample_YS_sum(ds.time, ds_w, years[i])]
        ones_out == [i \in 1..Len(years) |-> resample_YS_sum(ds.time, ones_w, years[i])]
        output == [i \in 1..Len(years) |-> FDiv(ds_sum[i], ones_out[i])]
    IN  IF \E y \in YearsPresent(ds.time) :
              ~allclose_one(weights_year_total(ds.time, weights, y))
        THEN Raise("AssertionError")
        ELSE Return([year |-> years, values |-> output])

\* ---------------------------------------------------------------------
\* Seasonal decomposition.  A series is a record [time, values].
\* ---------------------------------------------------------------------
\* the time steps k..Len(time) whose calendar month is m, in order
RECURSIVE StepsOfMonthFrom(_, _, _)
StepsOfMonthFrom(time, m, k) ==
    IF k > Len(time) THEN <<>>
    ELSE (IF time[k].month = m THEN <<k>> ELSE <<>>) \o StepsOfMonthFrom(time, m, k + 1)

StepsOfMonth(time, m) == StepsOfMonthFrom(time, m, 1)

\* the group labels of groupby("time.month"): the calendar months present
MonthsPresent(time) == {time[t].month : t \in 1..Len(time)}

CountNotNa(s) == Cardinality({k \in 1..Len(s) : ~IsNaN(s[k])})

\* mean with skipna (the default of xarray and pandas): nan when nothing is left
nanmean(s) == FDiv(FSumSkipNa(s), F(CountNotNa(s)))

\* a.groupby("time.month").mean(): one value per calendar month present
groupby_month_mean(time, a) ==
    [m \in MonthsPresent(time) |-> nanmean(Take(a, StepsOfMonth(time, m)))]

\* xarrayutils.linear_trend: least-squares regression of the values on
\* arange(n); slope and intercept
linear_trend(da) ==
    LET n == Len(da.values)
        x == [i \in 1..n |-> F(i - 1)]
        xm == FDiv(FSum(x), F(n))
        ym == FDiv(FSum(da.values), F(n))
        sxy == FSum([i \in 1..n |-> FMul(FSub(x[i], xm), FSub(da.values[i], ym))])
        sxx == FSum([i \in 1..n |-> FMul(FSub(x[i], xm), FSub(x[i], xm))])
        slope == FDiv(sxy, sxx)
    IN  [slope |-> slope, intercept |-> FSub(ym, FMul(slope, xm))]

\* the trend of xr_seasonal_decompose
xr_seasonal_decompose_trend(da) ==
    LET res == linear_trend(da)
        time_index == [i \in 1..Len(da.values) |-> F(i - 1)]
    IN  [i \in 1..Len(da.values) |-> FAdd(res.intercept, FMul(time_index[i], res.slope))]

\* xr_seasonal_decompose returning the residuals as the deseasonalized series
xr_seasonal_decompose_trend_not_added(da) ==
    LET n == Len(da.values)
        trend == xr_seasonal_decompose_trend(da)
        detrended == [t \in 1..n |-> FSub(da.values[t], trend[t])]
        seasonality == groupby_month_mean(da.time, detrended)
        residuals == [t \in 1..n |-> FSub(detrended[t], seasonality[da.time[t].month])]
    IN  Return([time |-> da.time,
                trend |-> trend,
                detrended |-> detrended,
                seasonality |-> seasonality,
                residuals |-> residuals,
                deseasonalized |-> residuals])

xr_seasonal_decompose(da) ==
    LET n == Len(da.values)
        trend == xr_seasonal_decompose_trend(da)
        detrended == [t \in 1..n |-> FSub(da.values[t], trend[t])]
        seasonality == groupby_month_mean(da.time, detrended)
        residuals == [t \in 1..n |-> FSub(detrended[t], seasonality[da.time[t].month])]
        deseasonalized == [t \in 1..n |-> FAdd(residuals[t], trend[t])]
    IN  Return([time |-> da.time,
                trend |-> trend,
                detrended |-> detrended,
                seasonality |-> seasonality,
                residuals |-> residuals,
                deseasonalized |-> deseasonalized])

\* the trend of xr_deseasonalize
xr_deseasonalize_trend(da) ==
    LET res == linear_trend(da)
        time_index == [i \in 1..Len(da.values) |-> F(i - 1)]
    IN  [i \in 1..Len(da.values) |-> FAdd(res.intercept, FMul(time_index[i], res.slope))]

\* xr_deseasonalize taking a season to be the position within a cycle of
\* freq time steps
xr_deseasonalize_by_freq(da, freq) ==
    LET n == Len(da.values)
        trend == xr_deseasonalize_trend(da)
        detrended == [t \in 1..n |-> FSub(da.values[t], trend[t])]
        season_mean(t) ==
            nanmean(Take(detrended,
                         [k \in 1..(((n - 1 - ((t - 1) % freq)) \div freq) + 1) |->
                             ((t - 1) % freq) + 1 + (k - 1) * freq]))
        deseasonalized_detrended == [t \in 1..n |-> FSub(detrended[t], season_mean(t))]
    IN  Return([time |-> da.time,
                values |-> [t \in 1..n |-> FAdd(deseasonalized_detrended[t], trend[t])]])

\* freq is not used by the function
xr_deseasonalize(da, freq) ==
    LET n == Len(da.values)
        trend == xr_deseasonalize_trend(da)
        detrended == [t \in 1..n |-> FSub(da.values[t], trend[t])]
        month_mean == groupby_month_mean(da.time, detrended)
        deseasonalized_detrended ==
            [t \in 1..n |-> FSub(detrended[t], month_mean[da.time[t].month])]
    IN  Return([time |-> da.time,
                values |-> [t \in 1..n |-> FAdd(deseasonalized_detrended[t], trend[t])]])

\* Series.rolling(window, center=True).mean(): the window of row t ends
\* (window - 1) // 2 rows after it; nan unless the window is full (min_periods
\* is the window) and free of nan
rolling_mean_centered(a, window) ==
    LET offset == (window - 1) \div 2
    IN  [t \in 1..Len(a) |->
            LET last == t + offset
                first == last - window + 1
            IN  IF first < 1 \/ last > Len(a) THEN NaN
                ELSE IF \E k \in first..last : IsNaN(a[k]) THEN NaN
                ELSE FDiv(FSum([k \in 1..window |-> a[first + k - 1]]), F(window))]

\* the trend of pd_seasonal_decompose as a trailing rolling mean
pd_seasonal_decompose_trend_trailing(x, freq) ==
    [t \in 1..Len(x.values) |->
        IF t - freq < 1 THEN NaN
        ELSE FDiv(FSum([k \in 1..(freq + 1) |-> x.values[t - freq + k - 1]]),
                  F(freq + 1))]

\* the trend of pd_seasonal_decompose
pd_seasonal_decompose_trend(x, freq) == rolling_mean_centered(x.values, freq + 1)

\* x is a Series [time (its index), values]; the result is a DataFrame, one
\* column per field
pd_seasonal_decompose(x, freq) ==
    LET n == Len(x.values)
        trend == pd_seasonal_decompose_trend(x, freq)
        detrended == [t \in 1..n |-> FSub(x.values[t], trend[t])]
        \* groupby(df.index.month)["detrended"].transform("mean")
        month_mean == groupby_month_mean(x.time, detrended)
        seasonality == [t \in 1..n |-> month_mean[x.time[t].month]]
        residuals == [t \in 1..n |-> FSub(detrended[t], seasonality[t])]
    IN  Return([time |-> x.time,
                raw |-> x.values,
                trend |-> trend,
                seasonality |-> seasonality,
                detrended |-> detrended,
                residuals |-> residuals])

\* ---------------------------------------------------------------------
\* extend_annual_series.  The input is a record [dims, year, time, values]:
\* dims is "year" (a year coordinate, no time) or "time" (time stamps).
\* ---------------------------------------------------------------------
\* f"{y}-{m}": the text of a year, a dash and a month
FormatYearMonth(y, m) == <<y, "-", m>>

\* pd.to_datetime of such a text: the first day of that month
to_datetime(txt) == Date(txt[1], txt[3], 1)

\* ds.expand_dims(month=np.arange(1, 13)): month becomes the first dimension
expand_dims_month(values) == [m \in 1..12 |-> values]

\* extend_annual_series stacking the months outermost
extend_annual_series_month_major(ds) ==
    LET year == IF ds.dims # "year"
                THEN [t \in 1..Len(ds.time) |-> ds.time[t].year]
                ELSE ds.year
        ny == Len(year)
        ds_monthly == expand_dims_month(ds.values)
        stacked == [k \in 1..(12 * ny) |-> ds_monthly[((k - 1) \div ny) + 1][((k - 1) % ny) + 1]]
        datetime == [k \in 1..(12 * ny) |->
                        to_datetime(FormatYearMonth(year[((k - 1) \div 12) + 1],
                                                    ((k - 1) % 12) + 1))]
    IN  Return([time |-> datetime, values |-> stacked])

extend_annual_series(ds) ==
    LET \* without a year dimension the years are read off the time stamps
        year == IF ds.dims # "year"
                THEN [t \in 1..Len(ds.time) |-> ds.time[t].year]
                ELSE ds.year
        ny == Len(year)
        ds_monthly == expand_dims_month(ds.values)
        \* stack(year_month=('year', 'month')): year outermost, month innermost
        stacked == [k \in 1..(12 * ny) |-> ds_monthly[((k - 1) % 12) + 1][((k - 1) \div 12) + 1]]
        \* for y in years for m in 1..12
        datetime == [k \in 1..(12 * ny) |->
                        to_datetime(FormatYearMonth(year[((k - 1) \div 12) + 1],
                                                    ((k - 1) % 12) + 1))]
    IN  Return([time |-> datetime, values |-> stacked])

\* StatsAccessor._is_annual
is_annual(obj) == obj.dims = "year"

\* StatsAccessor.fill_months_with_annual_value
fill_months_with_annual_value(obj) ==
    IF ~is_annual(obj) THEN Raise("ValueError") ELSE extend_annual_series(obj)

\* ---------------------------------------------------------------------
\* core.xarray_utils, plot.z_overlap, core.utils.save: xarray objects
\* ---------------------------------------------------------------------
\* A str is the sequence of its pieces; + and f-strings concatenate.
\* The object held by the caller, `xr_obj`, is an xarray.Dataset with one data
\* variable: its attrs (a dict of str), the accessors xarray has cached
\* on it, and the variable's encoding (a dict) and data (the cells of the
\* grid, row by row); ds[name] is a DataArray on the same variable.
\* `id` is the identity of the object, `coords` what lon/lat hold.
Dataset(attrs, encoding, data) ==
    [id |-> 1, attrs |-> attrs, _cache |-> {}, encoding |-> encoding,
     data |-> data, coords |-> "geodetic"]

\* dict.update(other)
dict_update(d, other) ==
    [k \in DOMAIN d \cup DOMAIN other |-> IF k \in DOMAIN other THEN other[k] ELSE d[k]]

\* datetime.strftime("%Y-%m-%d %H:%M:%S") of the instants the clock shows
strftime(now) ==
    IF now = 1 THEN "2024-06-12 16:18:16" ELSE "2024-06-12 16:18:17"

\* _ensure_history that resets the attribute whether or not it exists
_ensure_history_overwriting(obj) ==
    [obj EXCEPT !.attrs = dict_update(obj.attrs, [k \in {"history"} |-> <<>>])]

\* HistoryAccessor._ensure_history
_ensure_history(obj) ==
    IF "history" \notin DOMAIN obj.attrs
    THEN [obj EXCEPT !.attrs = dict_update(obj.attrs, [k \in {"history"} |-> <<>>])]
    ELSE obj

\* HistoryAccessor.__init__ ; xarray constructs the accessor on the first
\* ds.history and caches it on the object
HistoryAccessor(obj) ==
    IF "history" \in obj._cache THEN obj
    ELSE [_ensure_history(obj) EXCEPT !._cache = obj._cache \cup {"history"}]

\* HistoryAccessor.add that writes the bare message
HistoryAccessor_add_bare(obj, msg, now) ==
    [obj EXCEPT !.attrs = dict_update(obj.attrs,
        [k \in {"history"} |-> obj.attrs["history"] \o msg])]

\* HistoryAccessor.add: the object after self._obj.attrs['history'] += ...
HistoryAccessor_add(obj, msg, now) ==
    LET timestamp == strftime(now)
    IN  [obj EXCEPT !.attrs = dict_update(obj.attrs,
            [k \in {"history"} |-> obj.attrs["history"] \o <<timestamp, ": ">> \o msg \o <<"; ">>])]

\* ds.history.add(msg): the accessor is looked up, then add runs
history_add(obj, msg, now) == HistoryAccessor_add(HistoryAccessor(obj), msg, now)

\* compress_xarray that works on a copy of the encoding
compress_xarray_on_copy(data, complevel) == data

\* compress_xarray: both branches update the encoding dict of the
\* variable in place and return the object passed in
compress_xarray(data, complevel) ==
    LET compression_dict == [k \in {"zlib", "complevel"} |->
                                IF k = "zlib" THEN "True" ELSE complevel]
    IN  [data EXCEPT !.encoding = dict_update(data.encoding, compression_dict)]

\* da.data = masked_data: xarray stores a masked array with its masked
\* cells as nan
set_data(da, masked) == [da EXCEPT !.data = [i \in DOMAIN da.data |->
                                    IF i \in masked THEN NaN ELSE da.data[i]]]

\* fix_overlap: `to_mask` is the set of cells z_masked_overlap masks (it
\* follows from the projection of the axes); .obj is the caller's
\* DataArray after the call, .result the object returned
fix_overlap(da, to_mask) ==
    LET masked_da == set_data(da, to_mask)
    IN  [obj |-> masked_da,
         result |-> [masked_da EXCEPT !.id = da.id + 1, !.coords = "projected"]]

\* the message save composes from the metadata
save_msg(metadata) ==
    <<"File saved by ", metadata.relative_code_path, "#", metadata.line_number,
      " @git-commit:", metadata.git_commit>>

\* save registered for xr.Dataset: .obj is the caller's Dataset after the
\* call, .result what was raised or written
save_Dataset(obj, kwargs, now) ==
    IF "metadata" \notin DOMAIN kwargs
    THEN [obj |-> obj, result |-> Raise("KeyError")]
    ELSE LET written == history_add(obj, save_msg(kwargs["metadata"]), now)
         IN  [obj |-> written, result |-> Return(written)]

\* ---------------------------------------------------------------------
\* plot.maps: the accessor of polar stereographic axes
\* ---------------------------------------------------------------------
\* Python's None where a list of latitudes may stand
None == <<>>

\* a cartopy GeoAxes: its projection and the attributes set on it
GeoAxes(projection) == [projection |-> projection, attrs |-> [k \in {} |-> None]]

\* StereographicAxisAccessor.__init__: the fields of a new instance;
\* `instance` counts the instances constructed for the axes so far
StereographicAxisAccessor(ax, instance) ==
    IF ax.projection \notin {"NorthPolarStereo", "SouthPolarStereo"}
    THEN Raise("KeyError")
    ELSE Return([_pole |-> IF ax.projection = "SouthPolarStereo" THEN "south" ELSE "north",
                 _lat_limits |-> None,
                 _lon_grid_spacing |-> 30,
                 _draw_labels |-> TRUE,
                 instance |-> instance])

\* the accessor function without the hasattr test: a new instance on
\* every access
accessor_always_new(geo_axes) ==
    LET n == IF "_polar" \in DOMAIN geo_axes.attrs
             THEN geo_axes.attrs["_polar"].instance + 1 ELSE 1
        made == StereographicAxisAccessor(geo_axes, n)
    IN  IF made.status = "raise" THEN [obj |-> geo_axes, result |-> made]
        ELSE [obj |-> [geo_axes EXCEPT !.attrs = [k \in {"_polar"} |-> made.value]],
              result |-> made]

\* register_geoaxes_accessor.accessor: ax.polar; .obj is the axes after
\* the access, .result the instance returned (or what __init__ raised)
accessor(geo_axes) ==
    IF "_polar" \notin DOMAIN geo_axes.attrs
    THEN LET made == StereographicAxisAccessor(geo_axes, 1)
         IN  IF made.status = "raise" THEN [obj |-> geo_axes, result |-> made]
             ELSE [obj |-> [geo_axes EXCEPT !.attrs = [k \in {"_polar"} |-> made.value]],
                   result |-> made]
    ELSE [obj |-> geo_axes, result |-> Return(geo_axes.attrs["_polar"])]

\* reading ax.polar.lat_limits
lat_limits_getter(geo_axes) ==
    LET got == accessor(geo_axes)
    IN  IF got.result.status = "raise" THEN got
        ELSE LET self == got.result.value
                 limits == IF self._lat_limits = None
                           THEN IF self._pole = "south" THEN <<-90, -50>> ELSE <<50, 90>>
                           ELSE self._lat_limits
             IN  [obj |-> [got.obj EXCEPT !.attrs =
                              [k \in {"_polar"} |-> [self EXCEPT !._lat_limits = limits]]],
                  result |-> Return(limits)]

\* ax.polar.lat_limits = lat_lim
lat_limits_setter(geo_axes, lat_lim) ==
    LET got == accessor(geo_axes)
    IN  IF got.result.status = "raise" THEN got
        ELSE [obj |-> [got.obj EXCEPT !.attrs =
                          [k \in {"_polar"} |-> [got.result.value EXCEPT !._lat_limits = lat_lim]]],
              result |-> Return(None)]

\* _lon2rot with the first comparison strict
_lon2rot_strict(lon, pole) ==
    LET north == IF Abs(lon) > 90 THEN lon - 180 ELSE lon
    IN  IF pole = "south"
        THEN IF Abs(lon) = 90 THEN (0 - north) - 180 ELSE 0 - north
        ELSE north

\* _lon2rot: the rotation of a longitude label
_lon2rot(lon, pole) ==
    LET rot_rad == IF Abs(lon) >= 90 THEN lon - 180 ELSE lon
    IN  IF pole = "south"
        THEN IF Abs(lon) = 90 THEN (0 - rot_rad) - 180 ELSE 0 - rot_rad
        ELSE rot_rad

\* ---------------------------------------------------------------------
\* core.units and core.utils.order_of_magnitude
\* ---------------------------------------------------------------------
\* a <= b on floats (false when either is nan)
FLe(a, b) == ~IsNaN(a) /\ ~IsNaN(b) /\ a[1] * b[2] <= b[1] * a[2]

FLt(a, b) == FLe(a, b) /\ a # b

\* np.floor(np.log10(a)): nan for a < 0 and for nan
RECURSIVE floor_log10(_)
floor_log10(a) ==
    IF IsNaN(a) \/ a[1] < 0 THEN NaN
    ELSE IF a[2] = 0 THEN a
    ELSE IF a[1] = 0 THEN <<-1, 0>>
    ELSE IF a[1] >= 10 * a[2] THEN FAdd(floor_log10(Norm(a[1], 10 * a[2])), F(1))
    ELSE IF a[1] < a[2] THEN FSub(floor_log10(Norm(10 * a[1], a[2])), F(1))
    ELSE F(0)

\* np.rint: the nearest integer, halves to the even one
rint(a) ==
    IF a[2] = 0 THEN a
    ELSE LET q == a[1] \div a[2]
             r == a[1] % a[2]
         IN  IF 2 * r < a[2] THEN F(q)
             ELSE IF 2 * r > a[2] THEN F(q + 1)
             ELSE IF q % 2 = 0 THEN F(q) ELSE F(q + 1)

\* np.nanmedian of a sequence of floats
nanmedian(s) ==
    LET valid == SelectSeq(s, LAMBDA v : ~IsNaN(v))
        sorted == SortSeq(valid, LAMBDA a, b : FLt(a, b))
        n == Len(sorted)
    IN  IF n = 0 THEN NaN
        ELSE IF n % 2 = 1 THEN sorted[(n + 1) \div 2]
        ELSE FDiv(FAdd(sorted[n \div 2], sorted[n \div 2 + 1]), F(2))

\* order_of_magnitude of the elements `x`: None when all are zero, else
\* the magnitudes of the non-zero elements
order_of_magnitude(x) ==
    IF \A i \in DOMAIN x : x[i] = F(0) THEN None
    ELSE LET nonzero == SelectSeq(x, LAMBDA v : v # F(0))
         IN  [i \in DOMAIN nonzero |-> floor_log10(nonzero[i])]

\* The values handed to the conversions: a pandas.Series of floats (an
\* object that can be changed in place) or a float.
Series(values) == [kind |-> "Series", values |-> values]

Scalar(x) == [kind |-> "float", values |-> <<x>>]

\* The frame of a call: `caller` is the object the caller passed in,
\* `local` an object made inside the call, `ref` which of the two the
\* parameter name is bound to.
Frame(x) == [caller |-> x, local |-> x, ref |-> "caller"]

Bound(frame) == IF frame.ref = "caller" THEN frame.caller ELSE frame.local

\* p = p: the name stays bound to the caller's object
copy_alias(frame) == frame

\* p = copy(p): the name is bound to a new object with the same elements
copy(frame) == [frame EXCEPT !.local = Bound(frame), !.ref = "local"]

\* p op= ... with the new elements `values`: a Series is changed in
\* place, a float name is bound to the new float
iassign(frame, values) ==
    IF Bound(frame).kind = "Series" /\ frame.ref = "caller"
    THEN [frame EXCEPT !.caller.values = values]
    ELSE [frame EXCEPT !.local = [Bound(frame) EXCEPT !.values = values], !.ref = "local"]

itruediv(frame, k) ==
    iassign(frame, [i \in DOMAIN Bound(frame).values |-> FDiv(Bound(frame).values[i], k)])

imul(frame, k) ==
    iassign(frame, [i \in DOMAIN Bound(frame).values |-> FMul(Bound(frame).values[i], k)])

\* T[mask] += k (on a float: T += k under the same condition)
iadd_where(frame, mask, k) ==
    iassign(frame, [i \in DOMAIN Bound(frame).values |->
                       IF i \in mask THEN FAdd(Bound(frame).values[i], k)
                       ELSE Bound(frame).values[i]])

\* what a call leaves behind: the caller's object and the result
returns(frame) == [caller |-> frame.caller, result |-> Return(Bound(frame))]

raises(frame, e) == [caller |-> frame.caller, result |-> Raise(e)]

\* np.nanmedian(np.rint(order_of_magnitude(p))); np.rint(None) is a
\* TypeError
median_magnitude(x) ==
    LET oom == order_of_magnitude(x.values)
    IN  IF oom = None THEN Raise("TypeError")
        ELSE Return(nanmedian([i \in DOMAIN oom |-> rint(oom[i])]))

Between(lo, m, hi) == FLe(F(lo), m) /\ FLe(m, F(hi))

hPa_per_atm == Norm(101325, 100)

Pa_per_atm == F(101325)

pressure2atm(p) ==
    LET frame == copy(Frame(p))
        m == median_magnitude(Bound(frame))
    IN  IF m.status = "raise" THEN raises(frame, m.exc)
        ELSE IF Between(2, m.value, 3) THEN returns(itruediv(frame, hPa_per_atm))
        ELSE IF Between(4, m.value, 5) THEN returns(itruediv(frame, Pa_per_atm))
        ELSE IF Between(-1, m.value, 1) THEN returns(frame)
        ELSE raises(frame, "IOError")

pressure2mbar(p) ==
    LET frame == copy(Frame(p))
        m == median_magnitude(Bound(frame))
    IN  IF m.status = "raise" THEN raises(frame, m.exc)
        ELSE IF Between(2, m.value, 3) THEN returns(frame)
        ELSE IF Between(4, m.value, 5) THEN returns(itruediv(frame, F(100)))
        ELSE IF Between(-1, m.value, 1) THEN returns(imul(frame, hPa_per_atm))
        ELSE raises(frame, "IOError")

Kelvin_offset == Norm(27315, 100)

\* temperature2K that converts the values above 200
temperature2K_larger(T) ==
    LET frame == copy(Frame(T))
        v == Bound(frame).values
    IN  returns(iadd_where(frame, {i \in DOMAIN v : FLt(F(200), v[i])}, Kelvin_offset))

\* temperature2K: both branches add 273.15 where T < 200
temperature2K(T) ==
    LET frame == copy(Frame(T))
        v == Bound(frame).values
    IN  returns(iadd_where(frame, {i \in DOMAIN v : FLt(v[i], F(200))}, Kelvin_offset))

\* the warning temperature2K logs for a Series
temperature2K_log(T) ==
    IF T.kind = "Series" /\ \E i \in DOMAIN T.values : FLt(F(200), T.values[i])
    THEN <<"Some values seem to be already in Kelvin">> ELSE <<>>

temperature2C(T) ==
    LET frame == copy(Frame(T))
        v == Bound(frame).values
    IN  returns(iadd_where(frame, {i \in DOMAIN v : FLt(F(200), v[i])}, FNeg(Kelvin_offset)))

\* ---------------------------------------------------------------------
\* esd.ensemble
\* ---------------------------------------------------------------------
\* str.split('.'): the parts of a str between its dots
RECURSIVE str_split(_)
str_split(s) ==
    IF \A k \in DOMAIN s : s[k] # "." THEN <<s>>
    ELSE LET dot == CHOOSE k \in DOMAIN s : s[k] = "." /\ \A j \in 1..(k - 1) : s[j] # "."
         IN  <<SubSeq(s, 1, dot - 1)>> \o str_split(SubSeq(s, dot + 1, Len(s)))

\* the cell pandas puts where a key has fewer parts than the longest
NoPart == <<"None">>

\* Series.str.split('.', expand=True): one row per key, as many columns
\* as the longest key has parts
str_split_expand(member_values) ==
    LET parts == [i \in DOMAIN member_values |-> str_split(member_values[i])]
        width == CHOOSE w \in {Len(parts[i]) : i \in DOMAIN parts} :
                    \A i \in DOMAIN parts : Len(parts[i]) <= w
    IN  [i \in DOMAIN parts |->
            [j \in 1..width |-> IF j <= Len(parts[i]) THEN parts[i][j] ELSE NoPart]]

\* _build_member_mapping_table that keeps the default index
_build_member_mapping_table_default_index(member_values, member_id_elements) ==
    LET member_table == str_split_expand(member_values)
    IN  IF Len(member_table[1]) # Len(member_id_elements) THEN Raise("ValueError")
        ELSE Return([index |-> [i \in DOMAIN member_values |-> <<"0">>],
                     columns |-> member_id_elements, rows |-> member_table])

\* _build_member_mapping_table: pandas rejects column names that are not
\* as many as the columns
_build_member_mapping_table(member_values, member_id_elements) ==
    LET member_table == str_split_expand(member_values)
    IN  IF Len(member_table[1]) # Len(member_id_elements) THEN Raise("ValueError")
        ELSE Return([index |-> member_values, columns |-> member_id_elements,
                     rows |-> member_table])

\* EnsembleAccessor.key_template (property)
key_template(self) ==
    IF self._key_template = None THEN Raise("KeyError") ELSE Return(self._key_template)

\* EnsembleAccessor.key_template (setter): the accessor after the
\* assignment, or what was raised
key_template_setter(self, template_string) ==
    IF \A k \in DOMAIN template_string : template_string[k] # "." THEN Raise("ValueError")
    ELSE IF \E k \in DOMAIN str_split(template_string) :
                str_split(template_string)[k] = <<"member">> THEN Raise("ValueError")
    ELSE Return([self EXCEPT !._key_template = template_string])

\* EnsembleAccessor._verify_member_keys
_verify_member_keys(member_values) ==
    LET number_of_keys == {Len(str_split(member_values[i])) : i \in DOMAIN member_values}
    IN  IF Cardinality(number_of_keys) # 1 THEN Raise("ValueError") ELSE Return(None)

\* EnsembleAccessor._init_member_keys: the member table or what was raised
_init_member_keys(self, member_values) ==
    IF _verify_member_keys(member_values).status = "raise"
    THEN _verify_member_keys(member_values)
    ELSE IF key_template(self).status = "raise" THEN key_template(self)
    ELSE _build_member_mapping_table(member_values, str_split(key_template(self).value))

\* XarrayEnsembleAccessor._init_member_keys
Xarray_init_member_keys(self) ==
    IF ~self._obj.has_member THEN Raise("AttributeError")
    ELSE _init_member_keys(self, self._obj.member)

\* EnsembleAccessor.groupby on a Dataset: the groups are the members
\* (by position) that share a value of the column `key`
groupby(self, key) ==
    LET table == Xarray_init_member_keys(self)
    IN  IF table.status = "raise" THEN table
        ELSE IF \A c \in DOMAIN table.value.columns : table.value.columns[c] # key
        THEN Raise("KeyError")
        ELSE LET c == CHOOSE c \in DOMAIN table.value.columns : table.value.columns[c] = key
                 rows == table.value.rows
             IN  Return([g \in {rows[i][c] : i \in DOMAIN rows} |->
                            {i \in DOMAIN rows : rows[i][c] = g}])

\* XarrayEnsembleAccessor.__init__ on a Dataset with (or without) a
\* 'member' coordinate, whose attrs may hold a key_template
XarrayEnsembleAccessor(has_member, member, member_attrs) ==
    [_obj |-> [has_member |-> has_member, member |-> member, member_attrs |-> member_attrs],
     _key_template |-> None]

\* ---------------------------------------------------------------------
\* filehandling.utils
\* ---------------------------------------------------------------------
\* A path stands for the file it names: its type, size and modification
\* time (the os.stat signature) and its content.
\* filecmp.cmp(f1, f2, shallow=True): files that are not regular never
\* compare equal; equal signatures compare equal without a look at the
\* content; otherwise the files are equal when sizes and contents are
filecmp_cmp(f1, f2) ==
    IF f1.type # "regular" \/ f2.type # "regular" THEN FALSE
    ELSE IF <<f1.type, f1.size, f1.mtime>> = <<f2.type, f2.size, f2.mtime>> THEN TRUE
    ELSE IF f1.size # f2.size THEN FALSE
    ELSE f1.content = f2.content

\* the indices the two loops append to remove_idx, from index i on (an
\* index is appended once for every later file it compares equal to)
RECURSIVE remove_idx_from(_, _)
remove_idx_from(file_list, i) ==
    IF i > Len(file_list) THEN <<>>
    ELSE [k \in 1..Cardinality({j \in (i + 1)..Len(file_list) :
                                   filecmp_cmp(file_list[i], file_list[j])}) |-> i]
         \o remove_idx_from(file_list, i + 1)

\* the list without the elements at the indices in `idx`
RECURSIVE without_idx(_, _, _)
without_idx(file_list, idx, j) ==
    IF j > Len(file_list) THEN <<>>
    ELSE (IF j \in idx THEN <<>> ELSE <<file_list[j]>>) \o without_idx(file_list, idx, j + 1)

\* check_input_for_duplicates.wrapper: .calls are the arguments func was
\* called with, .log what was logged; the wrapper returns what func
\* returns
wrapper(file_list) ==
    IF file_list.kind # "list" \/ Len(file_list.items) <= 1
    THEN [calls |-> <<file_list>>, log |-> <<>>]
    ELSE LET remove_idx == remove_idx_from(file_list.items, 1)
             removed == {remove_idx[k] : k \in DOMAIN remove_idx}
             filtered_file_list == without_idx(file_list.items, removed, 1)
         IN  [calls |-> <<[kind |-> "list", items |-> filtered_file_list]>>,
              log |-> IF remove_idx # <<>>
                      THEN <<"Found and ignored duplicates in file list.">>
                      ELSE <<>>]

\* ---------------------------------------------------------------------
\* plot.maps: add_features
\* ---------------------------------------------------------------------
\* add_circular_ruler raises Warning unless segment_length fits an even
\* number of times into 360
add_circular_ruler(segment_length) ==
    IF 360 % (2 * segment_length) # 0 THEN Raise("Warning") ELSE Return(None)

\* add_features with the ruler before the circular boundary
add_features_ruler_first(self, gridlines, ruler, ruler_kwargs) ==
    LET spacing == IF "segment_length" \in DOMAIN ruler_kwargs
                   THEN ruler_kwargs["segment_length"] ELSE 30
        limits == IF self._lat_limits = None
                  THEN IF self._pole = "south" THEN <<-90, -50>> ELSE <<50, 90>>
                  ELSE self._lat_limits
        after == [self EXCEPT !._lon_grid_spacing = spacing, !._lat_limits = limits]
        base == <<"set_extent", "add_ocean", "add_land", "add_coastlines">>
    IN  IF ruler /\ add_circular_ruler(spacing).status = "raise"
        THEN [self |-> after, applied |-> base, result |-> Raise("Warning")]
        ELSE [self |-> after,
              applied |-> base \o (IF ruler THEN <<"add_ruler">> ELSE <<>>)
                          \o <<"make_circular">>
                          \o (IF gridlines
                              THEN <<"add_gridlines", "rotate_lat_labels", "rotate_lon_labels">>
                              ELSE <<>>),
              result |-> Return(None)]

\* StereographicAxisAccessor.add_features: .self is the accessor after
\* the call, .applied the methods that were carried out on the axes, in
\* order, .result None or what add_ruler raised
add_features(self, gridlines, ruler, ruler_kwargs) ==
    LET spacing == IF "segment_length" \in DOMAIN ruler_kwargs
                   THEN ruler_kwargs["segment_length"] ELSE 30
        limits == IF self._lat_limits = None
                  THEN IF self._pole = "south" THEN <<-90, -50>> ELSE <<50, 90>>
                  ELSE self._lat_limits
        after == [self EXCEPT !._lon_grid_spacing = spacing, !._lat_limits = limits]
        base == <<"set_extent", "add_ocean", "add_land", "add_coastlines", "make_circular">>
    IN  IF ruler /\ add_circular_ruler(spacing).status = "raise"
        THEN [self |-> after, applied |-> base, result |-> Raise("Warning")]
        ELSE [self |-> after,
              applied |-> base \o (IF ruler THEN <<"add_ruler">> ELSE <<>>)
                          \o (IF gridlines
                              THEN <<"add_gridlines", "rotate_lat_labels", "rotate_lon_labels">>
                              ELSE <<>>),
              result |-> Return(None)]

\* ---------------------------------------------------------------------
\* core.utils: centered_bins
\* ---------------------------------------------------------------------
\* np.gradient(x, h) for evenly indexed samples of spacing h: one-sided
\* differences at the two ends, central differences inside; fewer than
\* two samples raise ValueError
gradient(x, h) ==
    IF Len(x) < 2 THEN Raise("ValueError")
    ELSE Return([i \in 1..Len(x) |->
            IF i = 1 THEN FDiv(FSub(x[2], x[1]), h)
            ELSE IF i = Len(x) THEN FDiv(FSub(x[i], x[i - 1]), h)
            ELSE FDiv(FSub(x[i + 1], x[i - 1]), FMul(F(2), h))])

\* centered_bins(x): x is extended by its last value plus the last gap
\* (np.diff of a single value is empty and appends nothing), then the
\* gradient with spacing 2 is subtracted
centered_bins(x) ==
    IF Len(x) = 0 THEN Raise("IndexError")
    ELSE LET n == Len(x)
             extended == IF n = 1 THEN x
                         ELSE Append(x, FAdd(x[n], FSub(x[n], x[n - 1])))
             differences == gradient(extended, F(2))
         IN  IF differences.status = "raise" THEN differences
             ELSE Return([i \in 1..Len(extended) |->
                            FSub(extended[i], differences.value[i])])

\* ---------------------------------------------------------------------
\* Inputs
\* ---------------------------------------------------------------------
InvEntries == {F(i) : i \in (-MaxEntry)..MaxEntry}

CovEntries == {F(i) : i \in 0..MaxEntry}

InvShapes == {<<1, 1>>, <<1, 2>>, <<2, 1>>, <<2, 2>>}

\* n variables (rows) by m observations (columns)
CovShapes == {<<1, 1>>, <<1, 2>>, <<2, 1>>, <<2, 2>>, <<2, 3>>, <<3, 2>>}

MatricesOf(r, c, E) == [1..r -> [1..c -> E]]

IndexLabels == <<"r1", "r2", "r3", "r4">>

ColumnLabels == <<"A", "B", "C", "D">>

ArrayLikes(M) ==
    {ndarray(M),
     DataFrame(M, SubSeq(IndexLabels, 1, NRows(M)), SubSeq(ColumnLabels, 1, NCols(M)))}

\* the longest time axis given to weighted_annual_mean
MaxSteps == 13

StartYears == {2023, 2024}

\* the time axes of weighted_annual_mean: monthly, yearly, and daily ones that
\* start on the last day of a month
TimeAxes ==
    {date_range(Date(y, m, 1), n, "MS") :
        y \in StartYears, m \in 1..12, n \in 1..MaxSteps}
    \cup {date_range(Date(y, m, days_in_month(y, m)), n, "D") :
        y \in StartYears, m \in 1..12, n \in 1..MaxSteps}
    \cup {date_range(Date(y, 1, 1), n, "YS") : y \in StartYears, n \in 1..3}

\* a series along time whose values repeat the pattern p
Periodic(time, p) ==
    [time |-> time, values |-> [t \in 1..Len(time) |-> p[((t - 1) % Len(p)) + 1]]]

\* the values of a weighted_annual_mean input alternate between two values,
\* nan (a missing value) among them
Patterns == [1..2 -> {F(0), F(1), NaN}]

\* the longest series given to the decomposition routines (at least 2 steps:
\* a regression needs two points)
MaxLen == 4

\* the values of a decomposition input are drawn from 0..MaxValue
MaxValue == 2

\* the default of the freq argument
DefaultFreq == 12

Freqs == {DefaultFreq, 2}

\* monthly over a turn of the year, half-yearly (the same two calendar months
\* again and again) and daily over a turn of the month
DecomposeAxes ==
    {date_range(Date(2023, 12, 1), n, "MS") : n \in 2..MaxLen}
    \cup {date_range(Date(2023, 1, 1), n, "6MS") : n \in 2..MaxLen}
    \cup {date_range(Date(2023, 1, 31), n, "D") : n \in 2..MaxLen}

SeriesOn(time) ==
    {[time |-> time, values |-> v] : v \in [1..Len(time) -> {F(i) : i \in 0..MaxValue}]}

\* the largest number of years of an annual series
MaxYears == 3

\* annual series with a year dimension, the same on a yearly time axis, and
\* monthly series (several time steps in one year)
AnnualInputs ==
    {[dims |-> "year", year |-> [i \in 1..Len(v) |-> y + i - 1], time |-> <<>>, values |-> v] :
        y \in StartYears,
        v \in UNION {[1..n -> {F(i) : i \in 0..MaxValue}] : n \in 1..MaxYears}}
    \cup {[dims |-> "time", year |-> <<>>, time |-> date_range(Date(y, 1, 1), Len(v), f),
           values |-> v] :
        y \in StartYears, f \in {"YS", "MS"},
        v \in UNION {[1..n -> {F(i) : i \in 0..MaxValue}] : n \in 1..MaxYears}}

\* longitudes in steps of 10 degrees, and the poles
Longitudes == {10 * k : k \in -18..18}

Poles == {"north", "south"}

\* Elements of a Series passed to the unit conversions: at most
\* MaxSeries of them.
MaxSeries == 3

\* pressures: 0, 0.001, 0.15, 2, 1013.25, 1024, 101325, -5 and nan
Pressures ==
    {F(0), Norm(1, 1000), Norm(15, 100), F(2), Norm(101325, 100), F(1024), F(101325),
     F(-5), NaN}

\* temperatures: -10, 10, 200, 283.15, 300 and nan
Temperatures == {F(-10), F(10), F(200), Norm(28315, 100), F(300), NaN}

\* a float, or a Series of 1..MaxSeries floats, with elements from `E`
FloatsOrSeries(E) ==
    {Scalar(x) : x \in E}
    \cup {Series(v) : v \in UNION {[1..n -> E] : n \in 1..MaxSeries}}

\* Member keys have at most MaxParts parts.
MaxParts == 2

\* the parts of member keys: 'a', 'ab' and the empty str
KeyParts == {<<"a">>, <<"a", "b">>, <<>>}

RECURSIVE str_join(_)
str_join(parts) ==
    IF Len(parts) = 1 THEN parts[1] ELSE parts[1] \o <<".">> \o str_join(Tail(parts))

MemberKeys == {str_join(parts) : parts \in UNION {[1..n -> KeyParts] : n \in 1..MaxParts}}

\* one or two members
MemberValues == UNION {[1..n -> MemberKeys] : n \in 1..2}

ElementLists ==
    {<<<<"source_id">>>>, <<<<"source_id">>, <<"member_id">>>>,
     <<<<"source_id">>, <<"member_id">>, <<"grid_label">>>>}

\* key templates a caller writes: two are accepted by the setter
KeyTemplates ==
    {<<"source_id", ".", "member_id">>, <<"source_id", ".", "member_id", ".", "grid_label">>,
     <<"source_id">>, <<"member", ".", "member_id">>}

\* the attrs of the 'member' coordinate: with or without a key_template
MemberAttrs ==
    {[k \in {} |-> None], [k \in {"key_template"} |-> <<"source_id", ".", "member_id">>]}

GroupKeys == {<<"source_id">>, <<"member_id">>, <<"grid_label">>}

\* A file list has at most MaxFiles paths.
MaxFiles == 3

\* the files on disk: regular files of size 1 with two modification
\* times and two contents, a regular file of size 2, and a directory
Files ==
    {[type |-> "regular", size |-> 1, mtime |-> m, content |-> c] :
        m \in {1, 2}, c \in {"x", "y"}}
    \cup {[type |-> "regular", size |-> 2, mtime |-> 1, content |-> "zz"],
          [type |-> "directory", size |-> 1, mtime |-> 1, content |-> ""]}

\* what a caller passes: a list of paths, a tuple of paths or one path
FileArguments ==
    {[kind |-> k, items |-> l] :
        k \in {"list", "tuple"}, l \in UNION {[1..n -> Files] : n \in 0..MaxFiles}}
    \cup {[kind |-> "str", items |-> <<f>>] : f \in Files}

\* ruler_kwargs of add_features: none, or a segment_length (40 does not
\* fit an even number of times into 360)
RulerKwargs ==
    {[k \in {} |-> 0]} \cup {[k \in {"segment_length"} |-> s] : s \in {30, 40, 45}}

\* the largest bin centre
MaxCenter == 5

\* arrays of up to three strictly increasing bin centres
Centers ==
    UNION {{[i \in 1..n |-> F(s[i])] :
               s \in {t \in [1..n -> 0..MaxCenter] :
                         \A i, j \in 1..n : i < j => t[i] < t[j]}} : n \in 0..3}

Idle == [fn |-> "none", args |-> <<>>]

\* the axes of the figures: one per projection
AxesNames == {"ax_northpolar", "ax_southpolar", "ax_platecarree"}

NewAxes ==
    [a \in AxesNames |->
        GeoAxes(CASE a = "ax_northpolar" -> "NorthPolarStereo"
                  [] a = "ax_southpolar" -> "SouthPolarStereo"
                  [] OTHER -> "PlateCarree")]

\* the latitude limits a caller assigns
LatLimits == {<<30, 70>>, <<60, 90>>, <<-80, -60>>}

\* the datasets a caller starts from: without a history attribute, with
\* an empty one, with one written by another tool
Messages == {<<"new entry">>}

\* the compression levels and the metadata a caller passes
CompLevels == {1, 9}

Metadata == [relative_code_path |-> "myscript.py", line_number |-> "3",
             git_commit |-> "500e15f"]

SaveKwargs == {[k \in {} |-> Metadata], [k \in {"metadata"} |-> Metadata]}

\* the cells of the grid z_masked_overlap may mask
Cells == 1..2

\* Entries written to the history: at most MaxHistory per dataset.
MaxHistory == 2

Instants == {1, 2}

InitialHistories == {<<>>, <<"2024-01-01 00:00:00", ": ", "created", "; ">>}

InitialAttrs ==
    {[k \in {"title"} |-> <<"air temperature">>]}
    \cup {[k \in {"title", "history"} |->
             IF k = "title" THEN <<"air temperature">> ELSE h] : h \in InitialHistories}

InitialDatasets ==
    {Dataset(attrs, [k \in {"dtype"} |-> "float32"], <<F(1), F(2)>>) : attrs \in InitialAttrs}

NewDataset == Dataset([k \in {"title"} |-> <<"air temperature">>],
                      [k \in {"dtype"} |-> "float32"], <<F(1), F(2)>>)

Init ==
    /\ call = Idle /\ ret = Return(<<>>) /\ log = <<>>
    /\ passed = None
    /\ xr_obj = NewDataset
    /\ axes = NewAxes
    /\ assigned = [a \in AxesNames |-> None]

Call_inv ==
    /\ call = Idle
    /\ UNCHANGED <<passed, xr_obj, axes, assigned>>
    /\ \E s \in InvShapes : \E M \in MatricesOf(s[1], s[2], InvEntries) :
       \E x \in ArrayLikes(M) :
          /\ call' = [fn |-> "inv", args |-> <<x>>]
          /\ ret' = inv(x)
          /\ log' = <<>>

Call_empirical_covariance ==
    /\ call = Idle
    /\ UNCHANGED <<passed, xr_obj, axes, assigned>>
    /\ \E s \in CovShapes : \E M \in MatricesOf(s[1], s[2], CovEntries) :
       \E x \in ArrayLikes(M) : \E bias \in BOOLEAN :
          /\ call' = [fn |-> "empirical_covariance", args |-> <<x, bias>>]
          /\ ret' = empirical_covariance(x, bias)
          /\ log' = <<>>

Call_weighted_annual_mean ==
    /\ call = Idle
    /\ UNCHANGED <<passed, xr_obj, axes, assigned>>
    /\ \E time \in TimeAxes : \E p \in Patterns :
          LET ds == Periodic(time, p)
          IN  /\ call' = [fn |-> "weighted_annual_mean", args |-> <<ds>>]
              /\ log' = check_for_frequency(ds)
              /\ ret' = weighted_annual_mean(ds)

Call_xr_deseasonalize ==
    /\ call = Idle
    /\ UNCHANGED <<passed, xr_obj, axes, assigned>>
    /\ \E time \in DecomposeAxes : \E da \in SeriesOn(time) : \E freq \in Freqs :
          /\ call' = [fn |-> "xr_deseasonalize", args |-> <<da, freq>>]
          /\ ret' = xr_deseasonalize(da, freq)
          /\ log' = <<>>

Call_xr_seasonal_decompose ==
    /\ call = Idle
    /\ UNCHANGED <<passed, xr_obj, axes, assigned>>
    /\ \E time \in DecomposeAxes : \E da \in SeriesOn(time) :
          /\ call' = [fn |-> "xr_seasonal_decompose", args |-> <<da>>]
          /\ ret' = xr_seasonal_decompose(da)
          /\ log' = <<>>

Call_pd_seasonal_decompose ==
    /\ call = Idle
    /\ UNCHANGED <<passed, xr_obj, axes, assigned>>
    /\ \E time \in DecomposeAxes : \E x \in SeriesOn(time) : \E freq \in Freqs :
          /\ call' = [fn |-> "pd_seasonal_decompose", args |-> <<x, freq>>]
          /\ ret' = pd_seasonal_decompose(x, freq)
          /\ log' = <<>>

Call_extend_annual_series ==
    /\ call = Idle
    /\ UNCHANGED <<passed, xr_obj, axes, assigned>>
    /\ \E a \in AnnualInputs :
          /\ call' = [fn |-> "extend_annual_series", args |-> <<a>>]
          /\ ret' = extend_annual_series(a)
          /\ log' = <<>>

Call_fill_months_with_annual_value ==
    /\ call = Idle
    /\ UNCHANGED <<passed, xr_obj, axes, assigned>>
    /\ \E a \in AnnualInputs :
          /\ call' = [fn |-> "fill_months_with_annual_value", args |-> <<a>>]
          /\ ret' = fill_months_with_annual_value(a)
          /\ log' = <<>>

\* ---------------------------------------------------------------------
\* Operations on the caller's xarray object, in any order
\* ---------------------------------------------------------------------
InitXarray ==
    /\ call = Idle /\ ret = Return(<<>>) /\ log = <<>>
    /\ passed = None
    /\ xr_obj \in InitialDatasets
    /\ axes = NewAxes
    /\ assigned = [a \in AxesNames |-> None]

\* the number of pieces of the str `s` that are timestamps of the clock
RECURSIVE Written(_)
Written(s) ==
    IF s = <<>> THEN 0
    ELSE (IF \E t \in Instants : Head(s) = strftime(t) THEN 1 ELSE 0) + Written(Tail(s))

HistoryFull ==
    /\ "history" \in DOMAIN xr_obj.attrs
    /\ Written(xr_obj.attrs["history"]) >= MaxHistory

\* ds.history
Get_history ==
    /\ call' = [fn |-> "history", args |-> <<xr_obj>>]
    /\ xr_obj' = HistoryAccessor(xr_obj)
    /\ ret' = Return(HistoryAccessor(xr_obj))
    /\ log' = <<>>
    /\ UNCHANGED <<passed, axes, assigned>>

\* ds.history.add(msg), the clock showing `now`
Call_history_add ==
    /\ ~HistoryFull
    /\ \E msg \in Messages : \E now \in Instants :
          /\ call' = [fn |-> "history.add", args |-> <<xr_obj, msg, now>>]
          /\ xr_obj' = history_add(xr_obj, msg, now)
          /\ ret' = Return(history_add(xr_obj, msg, now))
          /\ log' = <<"Wrote to history">>
    /\ UNCHANGED <<passed, axes, assigned>>

Call_compress_xarray ==
    /\ \E complevel \in CompLevels :
          /\ call' = [fn |-> "compress_xarray", args |-> <<xr_obj, complevel>>]
          /\ xr_obj' = compress_xarray(xr_obj, complevel)
          /\ ret' = Return(compress_xarray(xr_obj, complevel))
          /\ log' = <<>>
    /\ UNCHANGED <<passed, axes, assigned>>

Call_fix_overlap ==
    /\ \E to_mask \in SUBSET Cells :
          /\ call' = [fn |-> "fix_overlap", args |-> <<xr_obj, to_mask>>]
          /\ xr_obj' = fix_overlap(xr_obj, to_mask).obj
          /\ ret' = Return(fix_overlap(xr_obj, to_mask).result)
          /\ log' = <<>>
    /\ UNCHANGED <<passed, axes, assigned>>

Call_save ==
    /\ ~HistoryFull
    /\ \E kwargs \in SaveKwargs : \E now \in Instants :
          /\ call' = [fn |-> "save", args |-> <<xr_obj, kwargs, now>>]
          /\ xr_obj' = save_Dataset(xr_obj, kwargs, now).obj
          /\ ret' = save_Dataset(xr_obj, kwargs, now).result
          /\ log' = IF "metadata" \in DOMAIN kwargs THEN <<"Wrote to history">> ELSE <<>>
    /\ UNCHANGED <<passed, axes, assigned>>

NextXarray ==
    \/ Get_history
    \/ Call_history_add
    \/ Call_compress_xarray
    \/ Call_fix_overlap
    \/ Call_save

SpecXarray == InitXarray /\ [][NextXarray]_vars

\* ---------------------------------------------------------------------
\* Operations on the axes of a figure, in any order.  `assigned` records
\* for each axes the value last assigned to ax.polar.lat_limits by the
\* caller (None: nothing assigned yet).
\* ---------------------------------------------------------------------
\* ax.polar
Get_polar ==
    /\ \E a \in AxesNames :
          /\ call' = [fn |-> "polar", args |-> <<a>>]
          /\ axes' = [axes EXCEPT ![a] = accessor(axes[a]).obj]
          /\ ret' = accessor(axes[a]).result
    /\ log' = <<>>
    /\ UNCHANGED <<passed, xr_obj, assigned>>

\* ax.polar.lat_limits
Read_lat_limits ==
    /\ \E a \in AxesNames :
          /\ call' = [fn |-> "lat_limits", args |-> <<a>>]
          /\ axes' = [axes EXCEPT ![a] = lat_limits_getter(axes[a]).obj]
          /\ ret' = lat_limits_getter(axes[a]).result
    /\ log' = <<>>
    /\ UNCHANGED <<passed, xr_obj, assigned>>

\* ax.polar.lat_limits = lat_lim
Assign_lat_limits ==
    /\ \E a \in AxesNames : \E lat_lim \in LatLimits :
          /\ call' = [fn |-> "lat_limits.setter", args |-> <<a, lat_lim>>]
          /\ axes' = [axes EXCEPT ![a] = lat_limits_setter(axes[a], lat_lim).obj]
          /\ ret' = lat_limits_setter(axes[a], lat_lim).result
          /\ assigned' = IF lat_limits_setter(axes[a], lat_lim).result.status = "ok"
                         THEN [assigned EXCEPT ![a] = lat_lim] ELSE assigned
    /\ log' = <<>>
    /\ UNCHANGED <<passed, xr_obj>>

NextAxes ==
    \/ Get_polar
    \/ Read_lat_limits
    \/ Assign_lat_limits

SpecAxes == Init /\ [][NextAxes]_vars

Call_lon2rot ==
    /\ call = Idle
    /\ UNCHANGED <<passed, xr_obj, axes, assigned>>
    /\ \E lon \in Longitudes : \E pole \in Poles :
          /\ call' = [fn |-> "_lon2rot", args |-> <<lon, pole>>]
          /\ ret' = Return(_lon2rot(lon, pole))
          /\ log' = <<>>

Call_pressure2atm ==
    /\ call = Idle
    /\ UNCHANGED <<xr_obj, axes, assigned>>
    /\ \E p \in FloatsOrSeries(Pressures) :
          /\ call' = [fn |-> "pressure2atm", args |-> <<p>>]
          /\ ret' = pressure2atm(p).result
          /\ passed' = pressure2atm(p).caller
          /\ log' = <<>>

Call_pressure2mbar ==
    /\ call = Idle
    /\ UNCHANGED <<xr_obj, axes, assigned>>
    /\ \E p \in FloatsOrSeries(Pressures) :
          /\ call' = [fn |-> "pressure2mbar", args |-> <<p>>]
          /\ ret' = pressure2mbar(p).result
          /\ passed' = pressure2mbar(p).caller
          /\ log' = <<>>

Call_temperature2K ==
    /\ call = Idle
    /\ UNCHANGED <<xr_obj, axes, assigned>>
    /\ \E T \in FloatsOrSeries(Temperatures) :
          /\ call' = [fn |-> "temperature2K", args |-> <<T>>]
          /\ ret' = temperature2K(T).result
          /\ passed' = temperature2K(T).caller
          /\ log' = temperature2K_log(T)

Call_temperature2C ==
    /\ call = Idle
    /\ UNCHANGED <<xr_obj, axes, assigned>>
    /\ \E T \in FloatsOrSeries(Temperatures) :
          /\ call' = [fn |-> "temperature2C", args |-> <<T>>]
          /\ ret' = temperature2C(T).result
          /\ passed' = temperature2C(T).caller
          /\ log' = <<>>

Call_build_member_mapping_table ==
    /\ call = Idle
    /\ UNCHANGED <<passed, xr_obj, axes, assigned>>
    /\ \E member_values \in MemberValues : \E member_id_elements \in ElementLists :
          /\ call' = [fn |-> "_build_member_mapping_table",
                      args |-> <<member_values, member_id_elements>>]
          /\ ret' = _build_member_mapping_table(member_values, member_id_elements)
          /\ log' = <<>>

\* ds.ens.key_template = template_string on a new accessor
Call_key_template_setter ==
    /\ call = Idle
    /\ UNCHANGED <<passed, xr_obj, axes, assigned>>
    /\ \E attrs \in MemberAttrs : \E template_string \in KeyTemplates :
          LET self == XarrayEnsembleAccessor(TRUE, <<<<"a", ".", "a">>>>, attrs)
          IN  /\ call' = [fn |-> "key_template.setter", args |-> <<self, template_string>>]
              /\ ret' = key_template_setter(self, template_string)
              /\ log' = <<>>

\* ds.ens.groupby(key), the template assigned before or not
Call_groupby ==
    /\ call = Idle
    /\ UNCHANGED <<passed, xr_obj, axes, assigned>>
    /\ \E member \in MemberValues : \E attrs \in MemberAttrs : \E has_member \in BOOLEAN :
       \E template \in {None} \cup KeyTemplates : \E key \in GroupKeys :
          LET new == XarrayEnsembleAccessor(has_member, IF has_member THEN member ELSE <<>>,
                                            IF has_member THEN attrs ELSE [k \in {} |-> None])
              set == IF template = None THEN Return(new)
                     ELSE key_template_setter(new, template)
              self == IF set.status = "ok" THEN set.value ELSE new
          IN  /\ call' = [fn |-> "groupby", args |-> <<self, key>>]
              /\ ret' = groupby(self, key)
              /\ log' = IF has_member /\ _verify_member_keys(member).status = "ok"
                           /\ Cardinality({member[i] : i \in DOMAIN member}) # Len(member)
                        THEN <<"Member IDs are not all different!">> ELSE <<>>

Call_check_input_for_duplicates ==
    /\ call = Idle
    /\ UNCHANGED <<passed, xr_obj, axes, assigned>>
    /\ \E file_list \in FileArguments :
          /\ call' = [fn |-> "check_input_for_duplicates", args |-> <<file_list>>]
          /\ ret' = Return([calls |-> wrapper(file_list).calls])
          /\ log' = wrapper(file_list).log

\* ax.polar.add_features(...) on polar axes, limits assigned before or
\* not; `passed` is the accessor with the methods carried out on its axes
Call_add_features ==
    /\ call = Idle
    /\ UNCHANGED <<xr_obj, axes, assigned>>
    /\ \E a \in {"ax_northpolar", "ax_southpolar"} : \E lat_lim \in {None} \cup LatLimits :
       \E gridlines \in BOOLEAN : \E ruler \in BOOLEAN : \E ruler_kwargs \in RulerKwargs :
          LET self == [StereographicAxisAccessor(NewAxes[a], 1).value
                          EXCEPT !._lat_limits = lat_lim]
              done == add_features(self, gridlines, ruler, ruler_kwargs)
          IN  /\ call' = [fn |-> "add_features",
                          args |-> <<self, gridlines, ruler, ruler_kwargs>>]
              /\ ret' = done.result
              /\ passed' = [self |-> done.self, applied |-> done.applied]
              /\ log' = <<>>

Call_centered_bins ==
    /\ call = Idle
    /\ UNCHANGED <<passed, xr_obj, axes, assigned>>
    /\ \E x \in Centers :
          /\ call' = [fn |-> "centered_bins", args |-> <<x>>]
          /\ ret' = centered_bins(x)
          /\ log' = <<>>

\* the caller takes the result; the next call may start
Done ==
    /\ call # Idle
    /\ passed' = None
    /\ UNCHANGED <<xr_obj, axes, assigned>>
    /\ call' = Idle
    /\ ret' = Return(<<>>)
    /\ log' = <<>>

Next ==
    \/ Call_inv
    \/ Call_empirical_covariance
    \/ Call_weighted_annual_mean
    \/ Call_xr_deseasonalize
    \/ Call_xr_seasonal_decompose
    \/ Call_pd_seasonal_decompose
    \/ Call_extend_annual_series
    \/ Call_fill_months_with_annual_value
    \/ Call_lon2rot
    \/ Call_pressure2atm
    \/ Call_pressure2mbar
    \/ Call_temperature2K
    \/ Call_temperature2C
    \/ Call_build_member_mapping_table
    \/ Call_key_template_setter
    \/ Call_groupby
    \/ Call_check_input_for_duplicates
    \/ Call_add_features
    \/ Call_centered_bins
    \/ Done

Spec == Init /\ [][Next]_vars

\* ---------------------------------------------------------------------
\* Claims: linalg
\* ---------------------------------------------------------------------
IsSquare(M) == NRows(M) = NCols(M)

Invertible(M) == IsSquare(M) /\ Det(M) # F(0)

\* C2: empirical_covariance(x, bias) of an n-by-m input is the n-by-n matrix
\* D*D^T/dof (D: x minus its row means; dof = m-1, or m with bias) and equals
\* the reference numpy.cov(x, bias=bias), for ndarray and DataFrame input.
\* With a single observation and bias False both are nan everywhere.
C2_CovarianceMatchesReference ==
    call.fn = "empirical_covariance" =>
        LET x == call.args[1]
            bias == call.args[2]
        IN  /\ ret.status = "ok"
            /\ ret.value.kind = x.kind
            /\ NRows(ret.value.values) = NRows(x.values)
            /\ NCols(ret.value.values) = NRows(x.values)
            /\ ret.value.values = np_cov(x.values, bias)

C2_Witness ==
    /\ call.fn = "empirical_covariance"
    /\ call.args[1].kind = "DataFrame"
    /\ NRows(call.args[1].values) = 2
    /\ NCols(call.args[1].values) = 3
    /\ call.args[2] = FALSE
    /\ ret.status = "ok"
    /\ ret.value.values[1][2] = <<1, 2>>
    /\ ret.value.values[1][1] # ret.value.values[2][2]

\* C3: for an invertible square x, inv(inv(x)) is x again and the matrix
\* product of inv(x) and x is the identity.
C3_InversionRoundTrip ==
    (call.fn = "inv" /\ Invertible(call.args[1].values)) =>
        /\ ret.status = "ok"
        /\ inv(ret.value) = Return(call.args[1])
        /\ MatMul(ret.value.values, call.args[1].values)
              = Identity(NRows(call.args[1].values))

C3_Witness ==
    /\ call.fn = "inv"
    /\ NRows(call.args[1].values) = 2
    /\ Invertible(call.args[1].values)
    /\ ret.status = "ok"
    /\ ret.value.values[1][2] # ret.value.values[2][1]
    /\ \E i \in 1..2, j \in 1..2 : ret.value.values[i][j][2] > 1

\* C4: a non-square input is rejected: a DataFrame with AssertionError, an
\* ndarray with ValueError, and nothing is returned.
C4_NonSquareRejected ==
    (call.fn = "inv" /\ ~IsSquare(call.args[1].values)) =>
        /\ ret.status = "raise"
        /\ ret.value = <<>>
        /\ call.args[1].kind = "DataFrame" => Raises(ret, "AssertionError")
        /\ call.args[1].kind = "ndarray" => Raises(ret, "ValueError")

C4_Witness ==
    /\ call.fn = "inv"
    /\ call.args[1].kind = "DataFrame"
    /\ NRows(call.args[1].values) = 2
    /\ NCols(call.args[1].values) = 1
    /\ ret.status = "raise"

\* C5: for a square (invertible) DataFrame df, inv(df) is a DataFrame holding
\* the inverse of df's values, with df's index as index and df's columns as
\* columns.
C5_DataFrameInverseKeepsLabels ==
    (/\ call.fn = "inv"
     /\ call.args[1].kind = "DataFrame"
     /\ Invertible(call.args[1].values)) =>
        /\ ret.status = "ok"
        /\ ret.value.kind = "DataFrame"
        /\ MatMul(call.args[1].values, ret.value.values)
              = Identity(NRows(call.args[1].values))
        /\ ret.value.index = call.args[1].index
        /\ ret.value.columns = call.args[1].columns

C5_Witness ==
    /\ call.fn = "inv"
    /\ call.args[1].kind = "DataFrame"
    /\ call.args[1].index # call.args[1].columns
    /\ NRows(call.args[1].values) = 2
    /\ ret.status = "ok"
    /\ ret.value.values[1][1] # F(0)
    /\ ret.value.values[1][2] # F(0)

\* ---------------------------------------------------------------------
\* Claims: stats.timeseries
\* ---------------------------------------------------------------------
\* the plain mean of the values of year y, nan skipped
PlainMeanOfYear(ds, y) ==
    LET idx == StepsOfYear(ds.time, y)
        vals == [k \in 1..Len(idx) |-> ds.values[idx[k]]]
        cnt == Cardinality({k \in 1..Len(idx) : ~IsNaN(vals[k])})
    IN  FDiv(FSumSkipNa(vals), F(cnt))

\* C1: in weighted_annual_mean the weights days_in_month(t) / (sum of
\* days_in_month over the time steps of t's year) sum to exactly 1 over every
\* calendar year on the time axis, and the assertion never fails.
C1_WeightsSumToOnePerYear ==
    call.fn = "weighted_annual_mean" =>
        LET time == call.args[1].time
        IN  /\ ~Raises(ret, "AssertionError")
            /\ \A y \in YearsPresent(time) :
                  weights_year_total(time, weights_of(time), y) = F(1)

\* a leap year and a year with fewer than 12 time steps on one axis
C1_Witness ==
    /\ call.fn = "weighted_annual_mean"
    /\ ret.status = "ok"
    /\ LET time == call.args[1].time
       IN  /\ YearsPresent(time) = {2023, 2024}
           /\ Len(StepsOfYear(time, 2023)) = 10
           /\ \E t \in 1..Len(time) :
                 /\ time[t] = Date(2024, 2, 1)
                 /\ weights_of(time)[t] = <<29, 91>>

\* C8 (as claimed): for input of daily frequency no weights are applied: each
\* annual value is the plain mean of that year's values.
C8_DailyInputUnweighted ==
    (/\ call.fn = "weighted_annual_mean"
     /\ infer_freq(call.args[1].time) = Return("D")) =>
        /\ ret.status = "ok"
        /\ \A i \in 1..Len(ret.value.year) :
              ret.value.values[i] = PlainMeanOfYear(call.args[1], ret.value.year[i])

\* C6: xr_seasonal_decompose is an exact additive decomposition:
\* detrended = da - trend; seasonality(m) is the mean of detrended over the
\* steps of calendar month m; residuals = detrended - seasonality(month);
\* trend + seasonality(month) + residuals = da; deseasonalized = da -
\* seasonality(month).
C6_AdditiveDecomposition ==
    call.fn = "xr_seasonal_decompose" =>
        LET da == call.args[1]
            r == ret.value
            n == Len(da.values)
        IN  /\ ret.status = "ok"
            /\ \A t \in 1..n :
                  /\ FAdd(r.detrended[t], r.trend[t]) = da.values[t]
                  /\ FAdd(r.residuals[t], r.seasonality[da.time[t].month]) = r.detrended[t]
                  /\ FAdd(FAdd(r.trend[t], r.seasonality[da.time[t].month]), r.residuals[t])
                        = da.values[t]
                  /\ FAdd(r.deseasonalized[t], r.seasonality[da.time[t].month])
                        = da.values[t]
            /\ DOMAIN r.seasonality = MonthsPresent(da.time)
            /\ \A m \in MonthsPresent(da.time) :
                  FMul(r.seasonality[m], F(Len(StepsOfMonth(da.time, m))))
                     = FSum(Take(r.detrended, StepsOfMonth(da.time, m)))

\* a calendar month with several time steps, a sloping trend and a seasonal
\* cycle that is not flat
C6_Witness ==
    /\ call.fn = "xr_seasonal_decompose"
    /\ ret.status = "ok"
    /\ Len(call.args[1].values) = 4
    /\ Len(StepsOfMonth(call.args[1].time, 1)) = 2
    /\ ret.value.trend[1] # ret.value.trend[2]
    /\ ret.value.seasonality[1] # F(0)
    /\ ret.value.residuals[1] # F(0)
    /\ ret.value.deseasonalized[1] # call.args[1].values[1]

\* tr is the least-squares straight line through y over the index 0..n-1,
\* finite at every step: equal increments and the two normal equations
IsRegressionLine(tr, y) ==
    /\ Len(tr) = Len(y)
    /\ \A t \in 1..Len(tr) : IsFinite(tr[t])
    /\ \A t \in 2..(Len(tr) - 1) : FSub(tr[t + 1], tr[t]) = FSub(tr[t], tr[t - 1])
    /\ FSum([t \in 1..Len(y) |-> FSub(y[t], tr[t])]) = F(0)
    /\ FSum([t \in 1..Len(y) |-> FMul(F(t - 1), FSub(y[t], tr[t]))]) = F(0)

\* tr is the mean of y over the window of freq+1 steps centred on each step,
\* and nan where that window reaches beyond the series
IsCentredRollingMean(tr, y, freq) ==
    /\ Len(tr) = Len(y)
    /\ \A t \in 1..Len(y) :
          LET lo == t + (freq \div 2) - freq
              hi == t + (freq \div 2)
          IN  IF lo >= 1 /\ hi <= Len(y)
              THEN FMul(tr[t], F(freq + 1)) = FSum([k \in 1..(freq + 1) |-> y[lo + k - 1]])
              ELSE IsNaN(tr[t])

\* C7 (as claimed): every decomposition routine takes as trend the regression
\* line intercept + slope*i fitted to the input, defined at every time step.
C7_EveryTrendIsRegressionLine ==
    /\ call.fn = "xr_seasonal_decompose" =>
          IsRegressionLine(ret.value.trend, call.args[1].values)
    /\ call.fn = "xr_deseasonalize" =>
          IsRegressionLine(xr_deseasonalize_trend(call.args[1]), call.args[1].values)
    /\ call.fn = "pd_seasonal_decompose" =>
          IsRegressionLine(ret.value.trend, call.args[1].values)

\* C7 (amended): xr_seasonal_decompose and xr_deseasonalize take as trend the
\* regression line, defined at every time step; pd_seasonal_decompose takes
\* the centred rolling mean over freq+1 steps, nan near both ends.
C7_XrTrendIsRegressionLine ==
    /\ call.fn = "xr_seasonal_decompose" =>
          IsRegressionLine(ret.value.trend, call.args[1].values)
    /\ call.fn = "xr_deseasonalize" =>
          /\ IsRegressionLine(xr_deseasonalize_trend(call.args[1]), call.args[1].values)
          /\ \A t \in 1..Len(call.args[1].values) :
                \* the returned series is the input minus the seasonal means of
                \* the input less that line
                FSub(call.args[1].values[t], ret.value.values[t])
                   = nanmean(Take([k \in 1..Len(call.args[1].values) |->
                                      FSub(call.args[1].values[k],
                                           xr_deseasonalize_trend(call.args[1])[k])],
                                  StepsOfMonth(call.args[1].time,
                                               call.args[1].time[t].month)))
    /\ call.fn = "pd_seasonal_decompose" =>
          IsCentredRollingMean(ret.value.trend, call.args[1].values, call.args[2])

\* a series of four steps with freq 2: the trend is the mean of three
\* neighbours inside and nan at both ends
C7_Witness ==
    /\ call.fn = "pd_seasonal_decompose"
    /\ call.args[2] = 2
    /\ call.args[1].values = <<F(2), F(2), F(0), F(1)>>
    /\ IsNaN(ret.value.trend[1])
    /\ ret.value.trend[2] = <<4, 3>>
    /\ ret.value.trend[3] = F(1)
    /\ IsNaN(ret.value.trend[4])

\* C9: xr_deseasonalize(da) returns the values of the 'deseasonalized'
\* component of xr_seasonal_decompose(da), whatever the freq argument.
C9_DeseasonalizeMatchesDecompose ==
    call.fn = "xr_deseasonalize" =>
        /\ ret.status = "ok"
        /\ ret.value.values = xr_seasonal_decompose(call.args[1]).value.deseasonalized
        /\ ret.value.time = call.args[1].time
        /\ \A freq \in Freqs : xr_deseasonalize(call.args[1], freq) = ret

C9_Witness ==
    /\ call.fn = "xr_deseasonalize"
    /\ call.args[2] # DefaultFreq
    /\ Len(call.args[1].values) = 4
    /\ Len(StepsOfMonth(call.args[1].time, 1)) = 2
    /\ ret.status = "ok"
    /\ ret.value.values # call.args[1].values
    /\ ret.value.values[1] # ret.value.values[3]

\* the years of an annual input, one per value
YearsOf(ds) ==
    IF ds.dims = "year" THEN ds.year ELSE [t \in 1..Len(ds.time) |-> ds.time[t].year]

OneValuePerYear(ds) ==
    \A i \in 1..Len(YearsOf(ds)), j \in 1..Len(YearsOf(ds)) :
        YearsOf(ds)[i] = YearsOf(ds)[j] => i = j

Before == call.args[1]

HadHistory == "history" \in DOMAIN Before.attrs

\* the entry add writes for a message when the clock shows `now`
Entry(msg, now) == <<strftime(now), ": ">> \o msg \o <<"; ">>

Content(obj) == <<obj.attrs, obj.encoding, obj.data>>

\* C18 as stated: add, compress_xarray, fix_overlap and save leave
\* attributes, encoding and data of the object passed in as they were.
C18_ObjectPassedInUnchanged ==
    call.fn \in {"history.add", "compress_xarray", "fix_overlap", "save"}
        => Content(xr_obj) = Content(Before)

\* C18, amended: the four operations work on the object passed in.  add
\* and save (given metadata) append one entry to its attrs['history']
\* and leave encoding and data; save without metadata raises KeyError
\* and changes nothing; compress_xarray sets zlib and complevel in the
\* encoding and leaves attributes and data; fix_overlap turns the masked
\* cells of the data into nan and leaves attributes and encoding.  add,
\* compress_xarray and save hand on the very object passed in,
\* fix_overlap returns a new one.
C18_OperationsModifyTheirArgument ==
    LET old == IF HadHistory THEN Before.attrs["history"] ELSE <<>>
        appended(msg, now) ==
            /\ xr_obj.attrs = dict_update(Before.attrs,
                                  [k \in {"history"} |-> old \o Entry(msg, now)])
            /\ xr_obj.encoding = Before.encoding
            /\ xr_obj.data = Before.data
    IN  /\ call.fn = "history.add" =>
              /\ appended(call.args[2], call.args[3])
              /\ ret.value = xr_obj
        /\ call.fn = "save" =>
              IF "metadata" \in DOMAIN call.args[2]
              THEN /\ appended(save_msg(Metadata), call.args[3])
                   /\ ret.value = xr_obj
              ELSE /\ Raises(ret, "KeyError")
                   /\ xr_obj = Before
        /\ call.fn = "compress_xarray" =>
              /\ {"zlib", "complevel"} \subseteq DOMAIN xr_obj.encoding
              /\ xr_obj.encoding["zlib"] = "True"
              /\ xr_obj.encoding["complevel"] = call.args[2]
              /\ \A k \in DOMAIN Before.encoding \ {"zlib", "complevel"} :
                    xr_obj.encoding[k] = Before.encoding[k]
              /\ xr_obj.attrs = Before.attrs
              /\ xr_obj.data = Before.data
              /\ ret.value = xr_obj
        /\ call.fn = "fix_overlap" =>
              /\ \A i \in DOMAIN Before.data :
                    xr_obj.data[i] = IF i \in call.args[2] THEN NaN ELSE Before.data[i]
              /\ xr_obj.attrs = Before.attrs
              /\ xr_obj.encoding = Before.encoding
              /\ ret.value.id # xr_obj.id
              /\ ret.value.data = xr_obj.data

C18_Witness ==
    /\ call.fn = "compress_xarray"
    /\ "zlib" \notin DOMAIN Before.encoding
    /\ xr_obj.encoding = [k \in {"dtype", "zlib", "complevel"} |->
                            CASE k = "dtype" -> "float32" [] k = "zlib" -> "True" [] OTHER -> 9]
    /\ <<NaN, F(2)>> = xr_obj.data


\* ---------------------------------------------------------------------
\* Claims: plot.maps (C13 under SpecAxes)
\* ---------------------------------------------------------------------
DefaultLatLimits(a) == IF a = "ax_southpolar" THEN <<-90, -50>> ELSE <<50, 90>>

PolarAxes == {"ax_northpolar", "ax_southpolar"}

\* C13: a read of ax.polar.lat_limits gives [50, 90] on north polar and
\* [-90, -50] on south polar axes as long as nothing was assigned on
\* those axes, and the value last assigned on those very axes after
\* that, whatever was assigned on the other axes; each axes gets one
\* accessor instance, which every access reuses.
C13_LatLimitsPerAxes ==
    /\ [](\A a \in PolarAxes :
          /\ (call.fn = "lat_limits" /\ call.args[1] = a) =>
                /\ ret.status = "ok"
                /\ ret.value = IF assigned[a] = None THEN DefaultLatLimits(a)
                               ELSE assigned[a]
          /\ "_polar" \in DOMAIN axes[a].attrs =>
                /\ axes[a].attrs["_polar"].instance = 1
                /\ axes[a].attrs["_polar"]._lat_limits \in
                      {IF assigned[a] = None THEN None ELSE assigned[a],
                       IF assigned[a] = None THEN DefaultLatLimits(a) ELSE assigned[a]})
    /\ [][\A a \in PolarAxes :
            (call'.fn = "lat_limits.setter" /\ call'.args[1] # a) =>
                axes'[a] = axes[a]]_vars

C13_Witness ==
    /\ call.fn = "lat_limits" /\ call.args[1] = "ax_northpolar"
    /\ ret.value = <<30, 70>>
    /\ assigned["ax_southpolar"] = <<-80, -60>>
    /\ axes["ax_southpolar"].attrs["_polar"]._lat_limits = <<-80, -60>>

\* the rotation the claim states for the north pole
NorthRotation(lon) == IF -90 < lon /\ lon < 90 THEN lon ELSE lon - 180

\* C14: _lon2rot(lon, 'north') is lon for |lon| < 90 and lon - 180 for
\* |lon| >= 90; for 'south' it is the negative of the north value, less
\* 180 when |lon| = 90; for lon = 0, 30, 60, 120, 160, 180 the north
\* values are 0, 30, 60, -60, -20, 0 and the south values
\* 0, -30, -60, 60, 20, 0.
C14_Lon2RotValues ==
    call.fn = "_lon2rot" =>
        LET lon == call.args[1]
            pole == call.args[2]
            tested == <<0, 30, 60, 120, 160, 180>>
            north == <<0, 30, 60, -60, -20, 0>>
            south == <<0, -30, -60, 60, 20, 0>>
        IN  /\ pole = "north" => ret.value = NorthRotation(lon)
            /\ pole = "south" =>
                  ret.value = -NorthRotation(lon) - (IF lon \in {-90, 90} THEN 180 ELSE 0)
            /\ \A i \in 1..6 : lon = tested[i] =>
                  ret.value = IF pole = "north" THEN north[i] ELSE south[i]

C14_Witness ==
    /\ call.fn = "_lon2rot"
    /\ call.args = <<90, "south">>
    /\ ret.value = -90

\* ---------------------------------------------------------------------
\* Claims: core.units
\* ---------------------------------------------------------------------
\* the elements of x, each divided by k
Divided(x, k) == [x EXCEPT !.values = [i \in DOMAIN x.values |-> FDiv(x.values[i], k)]]

\* the median over the non-zero elements of floor(log10(p))
MedianMagnitude(x) ==
    LET nonzero == SelectSeq(x.values, LAMBDA v : v # F(0))
    IN  nanmedian([i \in DOMAIN nonzero |-> floor_log10(nonzero[i])])

\* C15 as stated: pressure2atm takes the median over the non-zero
\* elements of floor(log10(p)); 2 to 3 means hPa and every element is
\* divided by 1013.25, 4 to 5 means Pa and every element is divided by
\* 101325, -1 to 1 means atm and p comes back unchanged; anything else
\* raises IOError.
C15_UnitFromMagnitude ==
    call.fn = "pressure2atm" =>
        LET p == call.args[1]
            m == MedianMagnitude(p)
        IN  IF Between(2, m, 3) THEN ret = Return(Divided(p, Norm(101325, 100)))
            ELSE IF Between(4, m, 5) THEN ret = Return(Divided(p, F(101325)))
            ELSE IF Between(-1, m, 1) THEN ret = Return(p)
            ELSE Raises(ret, "IOError")

C17_ArgumentUnchanged ==
    call.fn \in {"pressure2atm", "pressure2mbar", "temperature2K", "temperature2C"}
        => passed = call.args[1]

C17_Witness ==
    /\ call.fn = "pressure2atm"
    /\ call.args[1] = Series(<<Norm(101325, 100), F(1024)>>)
    /\ ret.value = Series(<<F(1), Norm(102400, 101325)>>)
    /\ passed = Series(<<Norm(101325, 100), F(1024)>>)

\* ---------------------------------------------------------------------
\* Claims: esd.ensemble
\* ---------------------------------------------------------------------
\* the number of dots in a str
RECURSIVE Dots(_)
Dots(s) == IF s = <<>> THEN 0 ELSE (IF Head(s) = "." THEN 1 ELSE 0) + Dots(Tail(s))

\* C19: for member keys that follow the template (each has as many
\* dot-separated parts as the template has elements),
\* _build_member_mapping_table returns a table with one row per key,
\* indexed by the keys in input order, and one column per template
\* element; the fields of a row contain no dot and joined with '.' give
\* back the row's key, so column i holds the i-th part of the key.
C19_TableSplitsKeys ==
    (/\ call.fn = "_build_member_mapping_table"
     /\ \A i \in DOMAIN call.args[1] : Dots(call.args[1][i]) + 1 = Len(call.args[2]))
        => /\ ret.status = "ok"
           /\ ret.value.index = call.args[1]
           /\ ret.value.columns = call.args[2]
           /\ DOMAIN ret.value.rows = DOMAIN call.args[1]
           /\ \A i \in DOMAIN call.args[1] :
                 /\ Len(ret.value.rows[i]) = Len(call.args[2])
                 /\ \A j \in DOMAIN ret.value.rows[i] : Dots(ret.value.rows[i][j]) = 0
                 /\ str_join(ret.value.rows[i]) = call.args[1][i]

C19_Witness ==
    /\ call.fn = "_build_member_mapping_table"
    /\ call.args[1] = <<<<"a", ".", "a", "b">>, <<"a", "b", ".">>>>
    /\ ret.status = "ok"
    /\ ret.value.rows = <<<<<<"a">>, <<"a", "b">>>>, <<<<"a", "b">>, <<>>>>>>

\* C20 as stated: on a Dataset whose 'member' coordinate has a
\* 'key_template' attribute that the member keys follow, with nothing
\* assigned to ds.ens.key_template, ds.ens.groupby(key) for an element
\* `key` of that template returns the members grouped by the part of
\* their key the template names `key`.
C20_TemplateFromMemberAttribute ==
    (/\ call.fn = "groupby"
     /\ call.args[1]._obj.has_member
     /\ call.args[1]._key_template = None
     /\ "key_template" \in DOMAIN call.args[1]._obj.member_attrs
     /\ LET template == call.args[1]._obj.member_attrs["key_template"]
        IN  /\ \A i \in DOMAIN call.args[1]._obj.member :
                  Dots(call.args[1]._obj.member[i]) = Dots(template)
            /\ \E c \in DOMAIN str_split(template) : str_split(template)[c] = call.args[2])
        => LET member == call.args[1]._obj.member
               elements == str_split(call.args[1]._obj.member_attrs["key_template"])
               c == CHOOSE c \in DOMAIN elements : elements[c] = call.args[2]
               part(i) == str_split(member[i])[c]
           IN  /\ ret.status = "ok"
               /\ ret.value = [g \in {part(i) : i \in DOMAIN member} |->
                                 {i \in DOMAIN member : part(i) = g}]

\* ---------------------------------------------------------------------
\* Claims: filehandling.utils
\* ---------------------------------------------------------------------
\* `short` is `long` with some elements left out, the rest in order
RECURSIVE IsSubsequence(_, _)
IsSubsequence(short, long) ==
    IF short = <<>> THEN TRUE
    ELSE IF long = <<>> THEN FALSE
    ELSE IF Head(short) = Head(long) /\ IsSubsequence(Tail(short), Tail(long)) THEN TRUE
    ELSE IsSubsequence(short, Tail(long))

\* C21 as stated: for a list of more than one path the wrapped function
\* is called exactly once, with a list in which no two files compare
\* equal, in which every file of the input has a representative (itself
\* or a file it compares equal to), and whose paths are in their
\* original order; any other argument is passed on unchanged.
C21_DuplicatesRemovedOnce ==
    call.fn = "check_input_for_duplicates" =>
        LET given == call.args[1]
            calls == ret.value.calls
        IN  /\ Len(calls) = 1
            /\ IF given.kind = "list" /\ Len(given.items) > 1
               THEN LET kept == calls[1].items
                    IN  /\ calls[1].kind = "list"
                        /\ \A i, j \in DOMAIN kept : i # j => ~filecmp_cmp(kept[i], kept[j])
                        /\ \A i \in DOMAIN given.items : \E k \in DOMAIN kept :
                              kept[k] = given.items[i] \/ filecmp_cmp(given.items[i], kept[k])
                        /\ IsSubsequence(kept, given.items)
               ELSE calls[1] = given

\* ---------------------------------------------------------------------
\* Claims: plot.maps, add_features
\* ---------------------------------------------------------------------
\* the position of method m in the sequence s (0 when it is not in it)
Position(s, m) ==
    IF \E k \in DOMAIN s : s[k] = m THEN CHOOSE k \in DOMAIN s : s[k] = m ELSE 0

\* the methods of s that are among those of `order`, in the order of s
Restricted(s, order) == SelectSeq(s, LAMBDA m : \E k \in DOMAIN order : order[k] = m)

C22_ValuesInsideTheirBins ==
    (call.fn = "centered_bins" /\ Len(call.args[1]) >= 2) =>
        LET x == call.args[1]
            n == Len(x)
            b == ret.value
            even == \A i \in 2..(n - 1) : FSub(x[i + 1], x[i]) = FSub(x[i], x[i - 1])
        IN  /\ ret.status = "ok"
            /\ Len(b) = n + 1
            /\ \A i \in 1..n : FLt(b[i], b[i + 1])
            /\ \A i \in 1..n : FLt(b[i], x[i]) /\ FLt(x[i], b[i + 1])
            /\ even => \A i \in 1..n : FAdd(b[i], b[i + 1]) = FMul(F(2), x[i])

====
